---- MODULE Spec2Model ----
(***************************************************************************)
(* TimeSpan: the timer / time-entry state machine of                       *)
(* src/services/mod.rs over the SQLite gateway of src/repository/mod.rs.   *)
(*                                                                         *)
(* The three tables are sets of rows.  Every gateway call takes the single *)
(* connection mutex for its whole body, so a gateway call is one atomic    *)
(* step; a service method is a sequence of such steps that other callers   *)
(* may interleave with.  A call and its first gateway call are one step:   *)
(* nothing is observable between them.  Time is counted in ticks,          *)
(* TicksPerSecond ticks to the second, so that sub-second clock readings   *)
(* exist.                                                                  *)
(***************************************************************************)
EXTENDS Integers, Sequences, FiniteSets, TLC

\* ---------------------------------------------------------------- bounds
MaxTime        == 2      \* clock readings range over 0..MaxTime ticks
MaxId          == 3      \* number of Uuid::new_v4() values handed out
TicksPerSecond == 2      \* clock resolution below one second
MaxOverlaps    == 1      \* calls begun while another call is in flight
MaxEntries     == 3      \* length of the entry lists TimeReport::new is given
SecondsPerDay  == 2      \* the days of the model are this many seconds long
MaxFiles       == 20     \* number of .rs files a commit is given
CountBits      == 9      \* width of the insertion and deletion counters (u32 in the code)

Procs == {"p1", "p2"}    \* concurrent callers sharing the Arc<dyn Repository>
Main  == "p1"            \* the caller a call is attributed to when none is in flight
ProjectNames == {"Acme"}               \* names createProject is called with
Names == ProjectNames \cup {"Beta"}     \* names startTimer is called with
Descs == {"d"}
Tasks == {"design"}
Tags  == {"dev", "rust"}

\* ---------------------------------------------------------------- Option<T>
None    == <<>>
Some(x) == <<x>>
IsSome(o) == o # <<>>
Unwrap(o) == o[1]
Opt(S)  == {None} \cup {Some(x) : x \in S}

Contains(seq, x) == \E i \in 1..Len(seq) : seq[i] = x

VARIABLES
    projects,       \* table projects
    time_entries,   \* table time_entries
    active_timer,   \* table active_timer
    now,            \* the latest reading of the wall clock
    nextId,         \* the next value Uuid::new_v4() returns
    pc,             \* per caller: the gateway call it is about to make
    local,          \* per caller: arguments, locals, result; pre/solo are history
    overlaps,       \* history: calls begun so far while another was in flight
    connection      \* the Mutex<Connection>: the caller that holds its guard

vars == <<projects, time_entries, active_timer, now, nextId, pc, local, overlaps,
          connection>>

\* ---------------------------------------------------------------- conversions
\* DateTime<Utc>::to_rfc3339 writes whole seconds and, when non-zero, the
\* fraction; the columns hold that text.  Modelled as <<seconds, fraction>>.
to_rfc3339(t)         == <<t \div TicksPerSecond, t % TicksPerSecond>>
parse_from_rfc3339(s) == s[1] * TicksPerSecond + s[2]

\* Duration::num_seconds truncates; Duration::seconds rebuilds from whole seconds.
num_seconds(d)      == d \div TicksPerSecond
Duration_seconds(s) == s * TicksPerSecond

\* The order of the TEXT columns that hold RFC 3339 timestamps: the strings are
\* compared byte by byte.  All of them are written by to_rfc3339 with the
\* offset +00:00, so the whole seconds decide and then the fraction.  Here
\* with a strict comparison.
text_le_strict(a, b) == a[1] < b[1] \/ (a[1] = b[1] /\ a[2] < b[2])

text_le(a, b) == a[1] < b[1] \/ (a[1] = b[1] /\ a[2] <= b[2])

\* DateTime::date_naive: the day of an instant; NaiveDate::and_hms_opt(h, m, s)
\* .and_local_timezone(Utc): the instant s seconds into that day.
TicksPerDay == SecondsPerDay * TicksPerSecond
date_naive(t) == t \div TicksPerDay
and_hms(day, seconds) == day * TicksPerDay + seconds * TicksPerSecond

\* tags column: NULL when the list is empty, else the JSON array.
tags_to_json(tags)   == IF tags = <<>> THEN None ELSE Some(tags)
tags_from_json(json) == IF IsSome(json) THEN Unwrap(json) ELSE <<>>

\* ---------------------------------------------------------------- models
\* Project::new.  created_at, updated_at, directory_path and is_client_project
\* are read by none of the operations below and are left out.
Project_new(id, name, description) ==
    [id |-> id, name |-> name, description |-> description]

Project_new_client_project(id, name, description, directory_path) ==
    [id |-> id, name |-> name, description |-> description,
     directory_path |-> Some(directory_path), is_client_project |-> TRUE]

Timer_new(id, project_id, project_name, task_description, start_time) ==
    [id |-> id, project_id |-> project_id, project_name |-> project_name,
     task_description |-> task_description, start_time |-> start_time,
     tags |-> <<>>]

\* Timer::add_tag without the contains test.
Timer_add_tag_dup(timer, tag) ==
    [timer EXCEPT !.tags = Append(@, tag)]

Timer_add_tag(timer, tag) ==
    IF ~Contains(timer.tags, tag)
    THEN [timer EXCEPT !.tags = Append(@, tag)]
    ELSE timer

TimeEntry_new(id, project_id, project_name, task_description, start_time, t) ==
    [id |-> id, project_id |-> project_id, project_name |-> project_name,
     task_description |-> task_description, start_time |-> start_time,
     end_time |-> None, duration |-> None, tags |-> <<>>,
     created_at |-> t, updated_at |-> t]

TimeEntry_add_tag(entry, tag, t) ==
    IF ~Contains(entry.tags, tag)
    THEN [entry EXCEPT !.tags = Append(@, tag), !.updated_at = t]
    ELSE entry

\* stop_timer without the tag loop.
add_tags_none(entry, tags, t) == entry

RECURSIVE add_tags(_, _, _)
\* services/mod.rs: for tag in timer.tags { time_entry.add_tag(tag) }
add_tags(entry, tags, t) ==
    IF tags = <<>> THEN entry
    ELSE add_tags(TimeEntry_add_tag(entry, Head(tags), t), Tail(tags), t)

\* TimeEntry::stop testing end_time < start_time.
TimeEntry_stop_ok_lax(entry, end_time) == ~(end_time < entry.start_time)

\* TimeEntry::stop: Err(InvalidDuration) unless end_time is after start_time.
TimeEntry_stop_ok(entry, end_time) == ~(end_time <= entry.start_time)

\* TimeEntry::stop with the operands of the subtraction swapped.
TimeEntry_stop_swapped(entry, end_time, t) ==
    [entry EXCEPT !.end_time = Some(end_time),
                  !.duration = Some(entry.start_time - end_time),
                  !.updated_at = t]

TimeEntry_stop(entry, end_time, t) ==
    [entry EXCEPT !.end_time = Some(end_time),
                  !.duration = Some(end_time - entry.start_time),
                  !.updated_at = t]

\* ---------------------------------------------------------------- TimeReport::new
RECURSIVE fold_durations(_, _)
\* entries.iter().filter_map(|e| e.duration).fold(Duration::zero(), |acc, d| acc + d)
fold_durations(entries, acc) ==
    IF entries = <<>> THEN acc
    ELSE fold_durations(Tail(entries),
                        IF IsSome(Head(entries).duration)
                        THEN acc + Unwrap(Head(entries).duration) ELSE acc)

\* project_summaries.entry(name).or_insert_with(..)
or_insert(map, name) ==
    IF name \in DOMAIN map THEN map[name]
    ELSE [project_name |-> name, total_duration |-> 0, entry_count |-> 0]

insert(map, name, value) ==
    [n \in DOMAIN map \cup {name} |-> IF n = name THEN value ELSE map[n]]

\* The loop body of TimeReport::new with entry_count += 1 inside the if.
summarize_counting_durations(map, entry) ==
    LET summary == or_insert(map, entry.project_name)
    IN  insert(map, entry.project_name,
               IF IsSome(entry.duration)
               THEN [summary EXCEPT !.total_duration = @ + Unwrap(entry.duration),
                                    !.entry_count = @ + 1]
               ELSE summary)

\* if let Some(duration) = entry.duration { summary.total_duration += duration }
\* summary.entry_count += 1
summarize(map, entry) ==
    LET summary == or_insert(map, entry.project_name)
        added   == IF IsSome(entry.duration)
                   THEN [summary EXCEPT !.total_duration = @ + Unwrap(entry.duration)]
                   ELSE summary
    IN  insert(map, entry.project_name, [added EXCEPT !.entry_count = @ + 1])

RECURSIVE fold_summaries(_, _)
\* for entry in &entries { .. }
fold_summaries(entries, map) ==
    IF entries = <<>> THEN map
    ELSE fold_summaries(Tail(entries), summarize(map, Head(entries)))

\* The orders HashMap::into_values may yield the values of a map with keys K in.
Orders(K) ==
    {o \in [1..Cardinality(K) -> K] : \A k \in K : \E i \in 1..Cardinality(K) : o[i] = k}

\* TimeReport::new; `order` is the iteration order of the HashMap.
TimeReport_new(entries, start, end, order) ==
    LET map == fold_summaries(entries, <<>>)
    IN  [total_duration |-> fold_durations(entries, 0),
         entries |-> entries,
         project_summaries |-> [i \in 1..Len(order) |-> map[order[i]]],
         date_range |-> [start |-> start, end |-> end]]

\* The project names of a list of entries: the keys of the HashMap.
Keys(entries) == {entries[i].project_name : i \in 1..Len(entries)}

\* ---------------------------------------------------------------- rows
\* The columns INSERT INTO projects writes (the time stamps are left out).
project_to_row(p)   == [id |-> p.id, name |-> p.name, description |-> p.description]

\* project_from_row reading the description column as NULL.
project_from_row_nodesc(r) == [r EXCEPT !.description = None]

project_from_row(r) == r

timer_to_row(timer) ==
    [id |-> timer.id, project_id |-> timer.project_id,
     project_name |-> timer.project_name,
     task_description |-> timer.task_description,
     start_time |-> to_rfc3339(timer.start_time),
     tags |-> tags_to_json(timer.tags)]

timer_from_row(row) ==
    [id |-> row.id, project_id |-> row.project_id,
     project_name |-> row.project_name,
     task_description |-> row.task_description,
     start_time |-> parse_from_rfc3339(row.start_time),
     tags |-> tags_from_json(row.tags)]

time_entry_to_row(e) ==
    [id |-> e.id, project_id |-> e.project_id, project_name |-> e.project_name,
     task_description |-> e.task_description,
     start_time |-> to_rfc3339(e.start_time),
     end_time |-> IF IsSome(e.end_time) THEN Some(to_rfc3339(Unwrap(e.end_time))) ELSE None,
     duration_seconds |-> IF IsSome(e.duration) THEN Some(num_seconds(Unwrap(e.duration))) ELSE None,
     tags |-> tags_to_json(e.tags),
     created_at |-> to_rfc3339(e.created_at),
     updated_at |-> to_rfc3339(e.updated_at)]

time_entry_from_row(row) ==
    [id |-> row.id, project_id |-> row.project_id, project_name |-> row.project_name,
     task_description |-> row.task_description,
     start_time |-> parse_from_rfc3339(row.start_time),
     end_time |-> IF IsSome(row.end_time) THEN Some(parse_from_rfc3339(Unwrap(row.end_time))) ELSE None,
     duration |-> IF IsSome(row.duration_seconds) THEN Some(Duration_seconds(Unwrap(row.duration_seconds))) ELSE None,
     tags |-> tags_from_json(row.tags),
     created_at |-> parse_from_rfc3339(row.created_at),
     updated_at |-> parse_from_rfc3339(row.updated_at)]

\* rows.next(): the first row of the result, in rowid (insertion) order; ids
\* are handed out in increasing order, so that is the row of least id.
FirstRow(rows) == CHOOSE r \in rows : \A s \in rows : r.id <= s.id

\* ---------------------------------------------------------------- gateway
\* The SELECT without its WHERE clause.
get_project_by_name_any(tbl, name) ==
    IF tbl = {} THEN None ELSE Some(project_from_row(FirstRow(tbl)))

\* SELECT .. FROM projects WHERE name = ?1, first row.
get_project_by_name(tbl, name) ==
    LET rows == {r \in tbl : r.name = name}
    IN  IF rows = {} THEN None ELSE Some(project_from_row(FirstRow(rows)))

\* INSERT INTO projects: id is the PRIMARY KEY, name is UNIQUE.
create_project_violates(tbl, project) ==
    \E r \in tbl : r.id = project.id \/ r.name = project.name

create_project(tbl, project) == tbl \cup {project_to_row(project)}

\* INSERT INTO time_entries: FOREIGN KEY (project_id) REFERENCES projects (id),
\* which SQLite enforces only when the library is built or set up to.
create_time_entry_violates(tbl_projects, entry) ==
    ~\E r \in tbl_projects : r.id = entry.project_id

create_time_entry(tbl, entry) == tbl \cup {time_entry_to_row(entry)}

\* save_active_timer keeping the row it finds (INSERT OR IGNORE, no DELETE).
save_active_timer_first(tbl, timer) ==
    IF tbl = {} THEN {timer_to_row(timer)} ELSE tbl

\* save_active_timer without the DELETE.
save_active_timer_keep(tbl, timer) == tbl \cup {timer_to_row(timer)}

\* DELETE FROM active_timer, then INSERT the timer's row.
save_active_timer(tbl, timer) == (tbl \ tbl) \cup {timer_to_row(timer)}

get_active_timer(tbl) ==
    IF tbl = {} THEN None ELSE Some(timer_from_row(FirstRow(tbl)))

clear_active_timer(tbl) == tbl \ tbl

\* SELECT .. FROM projects WHERE id = ?1, first row.
get_project_by_id(tbl, id) ==
    LET rows == {r \in tbl : r.id = id}
    IN  IF rows = {} THEN None ELSE Some(project_from_row(FirstRow(rows)))

\* delete_project counting no entry at all.
count_entries_of_zero(tbl, id) == 0

\* SELECT COUNT(*) FROM time_entries WHERE project_id = ?1
count_entries_of(tbl, id) == Cardinality({r \in tbl : r.project_id = id})

\* UPDATE projects SET name = ?2, description = ?3, updated_at = ?4 WHERE id = ?1
update_project(tbl, project) ==
    {IF r.id = project.id
     THEN [r EXCEPT !.name = project.name, !.description = project.description]
     ELSE r : r \in tbl}

\* DELETE FROM projects WHERE id = ?1
delete_project(tbl, id) == {r \in tbl : r.id # id}

\* SELECT .. FROM time_entries WHERE start_time >= ?1 AND start_time <= ?2
range_rows(tbl, start, end) ==
    {r \in tbl : /\ text_le(to_rfc3339(start), r.start_time)
                 /\ text_le(r.start_time, to_rfc3339(end))}

\* ORDER BY start_time ASC: the orders the rows may come in; rows of equal
\* start_time come in any order.
order_by_start_time(rows) ==
    {o \in [1..Cardinality(rows) -> rows] :
        /\ \A r \in rows : \E i \in 1..Cardinality(rows) : o[i] = r
        /\ \A i, j \in 1..Cardinality(rows) :
             i < j => text_le(o[i].start_time, o[j].start_time)}

\* list_time_entries_by_date_range: the Vec built from the rows in the order o.
list_time_entries_by_date_range(o) == [i \in 1..Len(o) |-> time_entry_from_row(o[i])]

\* ---------------------------------------------------------------- results
Ok(v)      == [kind |-> "Ok", val |-> Some(v)]
Err(k, v)  == [kind |-> k, val |-> Some(v)]
IsErr(r)   == r.kind # "Ok"

\* The rusqlite::Error a failed statement returns: its text names the cause.
rusqlite_Error == "disk I/O error"

\* #[error("..")]: what Display writes for each kind of error, as the pieces of
\* the format string.
Display(r) ==
    CASE r.kind = "Database"              -> <<"Database error: ", Unwrap(r.val)>>
      [] r.kind = "TimerAlreadyRunning"   -> <<"Timer is already running for project: ", Unwrap(r.val)>>
      [] r.kind = "NoActiveTimer"         -> <<"No active timer found">>
      [] r.kind = "ProjectNotFound"       -> <<"Project not found: ", Unwrap(r.val)>>
      [] r.kind = "ProjectAlreadyExists"  -> <<"Project already exists: ", Unwrap(r.val)>>
      [] r.kind = "ProjectHasTimeEntries" -> <<"Cannot delete project with time entries: ", Unwrap(r.val)>>
      [] r.kind = "InvalidDuration"       -> <<"Invalid duration format: ", Unwrap(r.val)>>
      [] r.kind = "Io"                    -> <<"IO error: ", Unwrap(r.val)>>

\* ---------------------------------------------------------------- callers
NoLocal ==
    [op |-> "none", name |-> "", description |-> None, task |-> None, tag |-> "",
     project |-> None, project_name |-> "", timer |-> None, entry |-> None,
     entries |-> <<>>, date |-> None, commit |-> None,
     options |-> None, directories |-> <<>>, discovery |-> None,
     result |-> None, pre |-> None, solo |-> FALSE]

Snapshot == [projects |-> projects, time_entries |-> time_entries,
             active_timer |-> active_timer]

InFlight(q) == pc[q] # "idle"

\* The record of p's last call, kept until the next call begins.
Completed(p) == pc[p] = "idle" /\ local[p].op # "none"

Alone(p) == \A r \in Procs \ {p} : ~InFlight(r)

\* Callers are interchangeable and keep nothing between calls, so a call that
\* begins while no call is in flight is attributed to Main; any other caller
\* begins only while Main is in flight.  At most MaxOverlaps calls of a run
\* begin while another call is in flight.
CanBegin(p) ==
    /\ pc[p] = "idle"
    /\ p = Main \/ InFlight(Main)
    /\ Alone(p) \/ overlaps < MaxOverlaps

\* History: a caller that begins while no other call is in flight runs alone
\* (solo) and remembers the store as it was (pre).
Started(p, args) ==
    IF Alone(p) THEN [args EXCEPT !.pre = Some(Snapshot), !.solo = TRUE] ELSE args

\* p's call begins and goes to `next` with locals l.  History: a call that
\* this call overlaps stops being alone; records of completed calls are dropped.
Enter(p, next, l) ==
    /\ UNCHANGED connection
    /\ overlaps' = IF Alone(p) THEN overlaps ELSE overlaps + 1
    /\ pc' = [pc EXCEPT ![p] = next]
    /\ local' = [q \in Procs |->
                   IF q = p THEN l
                   ELSE IF InFlight(q)
                        THEN [local[q] EXCEPT !.pre = None, !.solo = FALSE]
                        ELSE NoLocal]

Returned(l, r) == [l EXCEPT !.result = Some(r)]

\* p's call in flight goes on to `next` with locals l; what becomes of the
\* connection lock is left to the step.
Jump(p, next, l) ==
    /\ UNCHANGED overlaps
    /\ pc' = [pc EXCEPT ![p] = next]
    /\ local' = [local EXCEPT ![p] = l]

\* p's call in flight goes on to `next` with locals l.  A step is a whole
\* gateway call: it has taken the lock and let go of it.
Goto(p, next, l) ==
    /\ UNCHANGED connection
    /\ Jump(p, next, l)

\* p's call in flight returns r to its caller.
Finish(p, r) == Goto(p, "idle", Returned(local[p], r))

Init ==
    /\ projects = {}
    /\ time_entries = {}
    /\ active_timer = {}
    /\ now = 0
    /\ nextId = 1
    /\ pc = [p \in Procs |-> "idle"]
    /\ local = [p \in Procs |-> NoLocal]
    /\ overlaps = 0
    /\ connection = None

\* ---------------------------------------------------------------- clock
\* Utc::now(): the wall clock is only observed where the code reads it; a
\* reading is any instant not before the previous reading.
Utc_now == now..MaxTime

Store == <<projects, time_entries, active_timer>>

\* ---------------------------------------------------------------- ProjectService::create_project
\* create_project reporting a found name as ProjectNotFound.
CreateProject_wrong_error(p, name, description) ==
    /\ CanBegin(p)
    /\ LET l == Started(p, [NoLocal EXCEPT !.op = "create_project", !.name = name,
                                           !.description = description])
       IN  IF IsSome(get_project_by_name(projects, name))
           THEN /\ Enter(p, "idle", Returned(l, Err("ProjectNotFound", name)))
                /\ UNCHANGED nextId
           ELSE /\ nextId <= MaxId
                /\ nextId' = nextId + 1
                /\ Enter(p, "cp_insert",
                         [l EXCEPT !.project = Some(Project_new(nextId, name, description))])
    /\ UNCHANGED <<Store, now>>

\* if let Some(_) = get_project_by_name(name)? { return Err(ProjectAlreadyExists) }
\* let project = Project::new(name, description)
CreateProject(p, name, description) ==
    /\ CanBegin(p)
    /\ LET l == Started(p, [NoLocal EXCEPT !.op = "create_project", !.name = name,
                                           !.description = description])
       IN  IF IsSome(get_project_by_name(projects, name))
           THEN /\ Enter(p, "idle", Returned(l, Err("ProjectAlreadyExists", name)))
                /\ UNCHANGED nextId
           ELSE /\ nextId <= MaxId
                /\ nextId' = nextId + 1
                /\ Enter(p, "cp_insert",
                         [l EXCEPT !.project = Some(Project_new(nextId, name, description))])
    /\ UNCHANGED <<Store, now>>

\* The insert reporting a refused name as a storage error.
CreateProjectInsert_generic(p) ==
    /\ pc[p] = "cp_insert"
    /\ LET project == Unwrap(local[p].project)
       IN  IF create_project_violates(projects, project)
           THEN /\ Finish(p, Err("Database", "UNIQUE constraint failed"))
                /\ UNCHANGED projects
           ELSE /\ projects' = create_project(projects, project)
                /\ Finish(p, Ok(project))
    /\ UNCHANGED <<time_entries, active_timer, now, nextId>>

\* repository.create_project(&project)?; Ok(project)
CreateProjectInsert(p) ==
    /\ pc[p] = "cp_insert"
    /\ LET project == Unwrap(local[p].project)
       IN  IF create_project_violates(projects, project)
           THEN /\ Finish(p, Err("ProjectAlreadyExists", project.name))
                /\ UNCHANGED projects
           ELSE /\ projects' = create_project(projects, project)
                /\ Finish(p, Ok(project))
    /\ UNCHANGED <<time_entries, active_timer, now, nextId>>

\* ---------------------------------------------------------------- ProjectService::get_project
\* One gateway read: what get_project(name) returns on the table tbl.
get_project(tbl, name) == get_project_by_name(tbl, name)

\* ---------------------------------------------------------------- ProjectService::delete_project
\* let project = get_project_by_name(name)?.ok_or_else(ProjectNotFound)?;
DeleteProject(p, name) ==
    /\ CanBegin(p)
    /\ LET l == Started(p, [NoLocal EXCEPT !.op = "delete_project", !.name = name])
           found == get_project_by_name(projects, name)
       IN  IF ~IsSome(found)
           THEN Enter(p, "idle", Returned(l, Err("ProjectNotFound", name)))
           ELSE Enter(p, "dp_byid", [l EXCEPT !.project = found])
    /\ UNCHANGED <<Store, now, nextId>>

\* repository.delete_project(project.id): let project = get_project_by_id(id)?;
\* let project_name = the project's name, or the id when it is gone.
DeleteById(p) ==
    /\ pc[p] = "dp_byid"
    /\ LET id == Unwrap(local[p].project).id
           project == get_project_by_id(projects, id)
       IN  Goto(p, "dp_delete",
                [local[p] EXCEPT !.project_name =
                     IF IsSome(project) THEN Unwrap(project).name ELSE ToString(id)])
    /\ UNCHANGED <<Store, now, nextId>>

\* Under one lock: if count > 0 { return Err(ProjectHasTimeEntries(project_name)) }
\* DELETE FROM projects WHERE id = ?1
DeleteCount(p) ==
    /\ pc[p] = "dp_delete"
    /\ LET id == Unwrap(local[p].project).id
       IN  IF count_entries_of(time_entries, id) > 0
           THEN /\ Finish(p, Err("ProjectHasTimeEntries", local[p].project_name))
                /\ UNCHANGED projects
           ELSE /\ projects' = delete_project(projects, id)
                /\ Finish(p, Ok(""))
    /\ UNCHANGED <<time_entries, active_timer, now, nextId>>

\* ---------------------------------------------------------------- TimeTrackingService::start_timer
\* start_timer without the active-timer check.
StartTimer_nocheck(p, name, task) ==
    /\ CanBegin(p)
    /\ Enter(p, "st_proj",
             Started(p, [NoLocal EXCEPT !.op = "start_timer", !.name = name, !.task = task]))
    /\ UNCHANGED <<Store, now, nextId>>

\* start_timer resolving the project before it looks at the slot, and naming
\* the requested project in TimerAlreadyRunning.
StartTimer_project_first(p, name, task) ==
    /\ CanBegin(p)
    /\ LET l == Started(p, [NoLocal EXCEPT !.op = "start_timer", !.name = name,
                                           !.task = task])
           active == get_active_timer(active_timer)
       IN  IF ~IsSome(get_project_by_name(projects, name))
           THEN Enter(p, "idle", Returned(l, Err("ProjectNotFound", name)))
           ELSE IF IsSome(active)
                THEN Enter(p, "idle", Returned(l, Err("TimerAlreadyRunning", name)))
                ELSE Enter(p, "st_proj", l)
    /\ UNCHANGED <<Store, now, nextId>>

\* if let Some(active) = get_active_timer()? { return Err(TimerAlreadyRunning(active.project_name)) }
StartTimer(p, name, task) ==
    /\ CanBegin(p)
    /\ LET l == Started(p, [NoLocal EXCEPT !.op = "start_timer", !.name = name,
                                           !.task = task])
           active == get_active_timer(active_timer)
       IN  IF IsSome(active)
           THEN Enter(p, "idle",
                      Returned(l, Err("TimerAlreadyRunning", Unwrap(active).project_name)))
           ELSE Enter(p, "st_proj", l)
    /\ UNCHANGED <<Store, now, nextId>>

\* let project = get_project_by_name(project_name)?.ok_or_else(ProjectNotFound)?;
\* let timer = Timer::new(project.id, project.name, task_description, Utc::now());
StartProj(p) ==
    /\ pc[p] = "st_proj"
    /\ LET found == get_project_by_name(projects, local[p].name)
       IN  IF ~IsSome(found)
           THEN /\ Finish(p, Err("ProjectNotFound", local[p].name))
                /\ UNCHANGED <<nextId, now>>
           ELSE /\ nextId <= MaxId
                /\ nextId' = nextId + 1
                /\ \E t \in Utc_now :
                     /\ now' = t
                     /\ Goto(p, "st_save",
                             [local[p] EXCEPT !.timer =
                                 Some(Timer_new(nextId, Unwrap(found).id, Unwrap(found).name,
                                                local[p].task, t))])
    /\ UNCHANGED Store

\* repository.save_active_timer(&timer)?; Ok(timer)
StartSave(p) ==
    /\ pc[p] = "st_save"
    /\ active_timer' = save_active_timer(active_timer, Unwrap(local[p].timer))
    /\ Finish(p, Ok(Unwrap(local[p].timer)))
    /\ UNCHANGED <<projects, time_entries, now, nextId>>

\* ---------------------------------------------------------------- TimeTrackingService::stop_timer
\* The entry stop_timer builds from the timer it read, before stop().
entry_from_timer(id, timer, t) ==
    add_tags(TimeEntry_new(id, timer.project_id, timer.project_name,
                           timer.task_description, timer.start_time, t),
             timer.tags, t)

\* stop_timer reporting an empty slot as InvalidDuration.
StopTimer_wrong_error(p) ==
    /\ CanBegin(p)
    /\ LET l == Started(p, [NoLocal EXCEPT !.op = "stop_timer"])
           active == get_active_timer(active_timer)
       IN  IF ~IsSome(active)
           THEN /\ Enter(p, "idle", Returned(l, Err("InvalidDuration", "No active timer")))
                /\ UNCHANGED <<nextId, now>>
           ELSE /\ nextId <= MaxId
                /\ nextId' = nextId + 1
                /\ \E end_time \in Utc_now :
                     /\ now' = end_time
                     /\ LET entry == entry_from_timer(nextId, Unwrap(active), end_time)
                        IN  IF ~TimeEntry_stop_ok(entry, end_time)
                            THEN Enter(p, "idle",
                                       Returned([l EXCEPT !.timer = active],
                                                Err("InvalidDuration", "End time must be after start time")))
                            ELSE Enter(p, "sp_create",
                                       [l EXCEPT !.timer = active,
                                                 !.entry = Some(TimeEntry_stop(entry, end_time, end_time))])
    /\ UNCHANGED Store

\* let timer = get_active_timer()?.ok_or(NoActiveTimer)?;
\* let end_time = Utc::now(); TimeEntry::new(..); add_tag ..; time_entry.stop(end_time)?;
\* The readings of Utc::now() within one stop_timer call (end_time, created_at,
\* updated_at) are taken as one instant.
StopTimer(p) ==
    /\ CanBegin(p)
    /\ LET l == Started(p, [NoLocal EXCEPT !.op = "stop_timer"])
           active == get_active_timer(active_timer)
       IN  IF ~IsSome(active)
           THEN /\ Enter(p, "idle", Returned(l, Err("NoActiveTimer", "")))
                /\ UNCHANGED <<nextId, now>>
           ELSE /\ nextId <= MaxId
                /\ nextId' = nextId + 1
                /\ \E end_time \in Utc_now :
                     /\ now' = end_time
                     /\ LET entry == entry_from_timer(nextId, Unwrap(active), end_time)
                        IN  IF ~TimeEntry_stop_ok(entry, end_time)
                            THEN Enter(p, "idle",
                                       Returned([l EXCEPT !.timer = active],
                                                Err("InvalidDuration", "End time must be after start time")))
                            ELSE Enter(p, "sp_create",
                                       [l EXCEPT !.timer = active,
                                                 !.entry = Some(TimeEntry_stop(entry, end_time, end_time))])
    /\ UNCHANGED Store

\* repository.create_time_entry(&time_entry)?
\* The source does not set PRAGMA foreign_keys and the build of SQLite is not
\* part of it: an entry of a project that is gone is either inserted or
\* refused with a constraint error, which `?` returns as Err(Database).
StopCreate(p) ==
    /\ pc[p] = "sp_create"
    /\ \/ /\ time_entries' = create_time_entry(time_entries, Unwrap(local[p].entry))
          /\ Goto(p, "sp_clear", local[p])
       \/ /\ create_time_entry_violates(projects, Unwrap(local[p].entry))
          /\ Finish(p, Err("Database", "FOREIGN KEY constraint failed"))
          /\ UNCHANGED time_entries
    /\ UNCHANGED <<projects, active_timer, now, nextId>>

\* repository.clear_active_timer()?; Ok(time_entry)
StopClear(p) ==
    /\ pc[p] = "sp_clear"
    /\ active_timer' = clear_active_timer(active_timer)
    /\ Finish(p, Ok(Unwrap(local[p].entry)))
    /\ UNCHANGED <<projects, time_entries, now, nextId>>

\* ---------------------------------------------------------------- TimeTrackingService::add_tag_to_active_timer
\* add_tag_to_active_timer doing nothing, and saying so, when the slot is empty.
AddTag_silent(p, tag) ==
    /\ CanBegin(p)
    /\ LET l == Started(p, [NoLocal EXCEPT !.op = "add_tag", !.tag = tag])
           active == get_active_timer(active_timer)
       IN  IF ~IsSome(active)
           THEN Enter(p, "idle", Returned(l, Ok("")))
           ELSE Enter(p, "tg_save",
                      [l EXCEPT !.timer = Some(Timer_add_tag(Unwrap(active), tag))])
    /\ UNCHANGED <<Store, now, nextId>>

\* let mut timer = get_active_timer()?.ok_or(NoActiveTimer)?; timer.add_tag(tag);
AddTag(p, tag) ==
    /\ CanBegin(p)
    /\ LET l == Started(p, [NoLocal EXCEPT !.op = "add_tag", !.tag = tag])
           active == get_active_timer(active_timer)
       IN  IF ~IsSome(active)
           THEN Enter(p, "idle", Returned(l, Err("NoActiveTimer", "")))
           ELSE Enter(p, "tg_save",
                      [l EXCEPT !.timer = Some(Timer_add_tag(Unwrap(active), tag))])
    /\ UNCHANGED <<Store, now, nextId>>

\* repository.save_active_timer(&timer)
TagSave(p) ==
    /\ pc[p] = "tg_save"
    /\ active_timer' = save_active_timer(active_timer, Unwrap(local[p].timer))
    /\ Finish(p, Ok(""))
    /\ UNCHANGED <<projects, time_entries, now, nextId>>

\* ---------------------------------------------------------------- TimeTrackingService::get_current_status
\* Duration::num_hours, Duration::num_minutes.
num_hours(d)   == d \div (3600 * TicksPerSecond)
num_minutes(d) == d \div (60 * TicksPerSecond)

\* Timer::elapsed at the clock reading t.
Timer_elapsed(timer, t) == t - timer.start_time

\* The String get_current_status builds, as the pieces format! puts together.
current_status(active, t) ==
    IF IsSome(active)
    THEN LET timer     == Unwrap(active)
             elapsed   == Timer_elapsed(timer, t)
             hours     == num_hours(elapsed)
             minutes   == num_minutes(elapsed) % 60
             task_desc == IF IsSome(timer.task_description)
                          THEN <<" - ", Unwrap(timer.task_description)>>
                          ELSE <<>>
         IN  <<"timer", timer.project_name, " (", ToString(hours), "h ",
               ToString(minutes), "m)">> \o task_desc
    ELSE <<"No active timer">>

\* get_current_status deleting the timer it reports.
GetCurrentStatus_clearing(p) ==
    /\ CanBegin(p)
    /\ LET l == Started(p, [NoLocal EXCEPT !.op = "get_current_status"])
           active == get_active_timer(active_timer)
       IN  \E t \in (IF IsSome(active) THEN Utc_now ELSE {now}) :
             /\ now' = t
             /\ Enter(p, "idle", Returned(l, Ok(current_status(active, t))))
    /\ active_timer' = clear_active_timer(active_timer)
    /\ UNCHANGED <<projects, time_entries, nextId>>

\* match get_active_timer()? { Some(timer) => Ok(format!(..)), None => Ok("No active timer") }
\* The clock is read (Timer::elapsed) only when a timer is found.
GetCurrentStatus(p) ==
    /\ CanBegin(p)
    /\ LET l == Started(p, [NoLocal EXCEPT !.op = "get_current_status"])
           active == get_active_timer(active_timer)
       IN  \E t \in (IF IsSome(active) THEN Utc_now ELSE {now}) :
             /\ now' = t
             /\ Enter(p, "idle", Returned(l, Ok(current_status(active, t))))
    /\ UNCHANGED <<Store, nextId>>

\* ---------------------------------------------------------------- TimeReport::new, called
\* The entries TimeReport::new is given: of either project, running or with a
\* duration (zero, as read from a row of zero seconds, or more).
ReportEntries ==
    {[TimeEntry_new(1, 1, name, None, 0, 0) EXCEPT
          !.duration = duration,
          !.end_time = IF IsSome(duration) THEN Some(Unwrap(duration)) ELSE None] :
     name \in Names, duration \in Opt(0..MaxTime)}

EntryLists == UNION {[1..n -> ReportEntries] : n \in 0..MaxEntries}

\* The caller holds the list it is about to pass.
InitTimeReport ==
    /\ projects = {}
    /\ time_entries = {}
    /\ active_timer = {}
    /\ now = 0
    /\ nextId = 1
    /\ pc = [p \in Procs |-> "idle"]
    /\ \E entries \in EntryLists :
         local = [p \in Procs |-> IF p = Main THEN [NoLocal EXCEPT !.entries = entries]
                                               ELSE NoLocal]
    /\ overlaps = 0
    /\ connection = None

\* TimeReport::new(entries, start, end)
NewReport(p, order) ==
    /\ CanBegin(p)
    /\ local[p].op = "none"
    /\ order \in Orders(Keys(local[p].entries))
    /\ Enter(p, "idle",
             Returned(Started(p, [local[p] EXCEPT !.op = "time_report_new"]),
                      Ok(TimeReport_new(local[p].entries, 0, 0, order))))
    /\ UNCHANGED <<Store, now, nextId>>

\* ---------------------------------------------------------------- ReportingService::generate_daily_report
start_of_day(date) == and_hms(date_naive(date), 0)
end_of_day(date)   == and_hms(date_naive(date), SecondsPerDay - 1)

\* let entries = list_time_entries_by_date_range(start_of_day, end_of_day)?;
\* Ok(TimeReport::new(entries, start_of_day, end_of_day))
DailyReport(p, date) ==
    /\ CanBegin(p)
    /\ \E o \in order_by_start_time(range_rows(time_entries, start_of_day(date), end_of_day(date))) :
         LET entries == list_time_entries_by_date_range(o)
         IN  \E order \in Orders(Keys(entries)) :
               Enter(p, "idle",
                     Returned(Started(p, [NoLocal EXCEPT !.op = "daily_report",
                                                         !.date = Some(date)]),
                              Ok(TimeReport_new(entries, start_of_day(date),
                                                end_of_day(date), order))))
    /\ UNCHANGED <<Store, now, nextId>>

\* The instants of the first two days.
ReportTimes == 0..(2 * TicksPerDay - 1)

\* The finished entry of one second that stop_timer persists for a timer of
\* project `name` started at `start`.
stopped_entry(id, name, start) ==
    TimeEntry_stop(TimeEntry_new(id, IF name = "Acme" THEN 1 ELSE 2, name, None,
                                 start, start + TicksPerSecond),
                   start + TicksPerSecond, start + TicksPerSecond)

\* The store holds up to three finished entries of the two projects, inserted
\* in the order of their start times.
EntryIds == {1, 2, 3}

InitReports ==
    /\ projects = {Project_new(1, "Acme", None), Project_new(2, "Beta", None)}
    /\ \E n \in {0} \cup EntryIds :
         \E name \in [1..n -> Names], start \in [1..n -> ReportTimes] :
            /\ \A i, j \in 1..n : i < j => start[i] <= start[j]
            /\ time_entries =
                 {time_entry_to_row(stopped_entry(i, name[i], start[i])) : i \in 1..n}
    /\ active_timer = {}
    /\ now = 2 * TicksPerDay
    /\ nextId = Cardinality(EntryIds) + 1
    /\ pc = [p \in Procs |-> "idle"]
    /\ local = [p \in Procs |-> NoLocal]
    /\ overlaps = 0
    /\ connection = None

\* ---------------------------------------------------------------- ReportingService::generate_weekly_report
\* The week taken to begin on Sunday.
days_from_sunday(date) == (date_naive(date) + 4) % 7

\* match date.weekday() { Mon => 0, .., Sun => 6 }: day 0 (1970-01-01) is a
\* Thursday.
days_from_monday(date) == (date_naive(date) + 3) % 7

\* chrono::Duration::days
Duration_days(n) == n * TicksPerDay

\* let monday = date - Duration::days(days_from_monday);
\* let start_of_week = monday.date_naive().and_hms_opt(0, 0, 0) ..
start_of_week(date) ==
    and_hms(date_naive(date - Duration_days(days_from_monday(date))), 0)

\* let end_of_week = start_of_week + Duration::days(6);
\* let end_of_week = end_of_week.date_naive().and_hms_opt(23, 59, 59) ..
end_of_week(date) ==
    and_hms(date_naive(start_of_week(date) + Duration_days(6)), SecondsPerDay - 1)

\* let entries = list_time_entries_by_date_range(start_of_week, end_of_week)?;
\* Ok(TimeReport::new(entries, start_of_week, end_of_week))
WeeklyReport(p, date) ==
    /\ CanBegin(p)
    /\ \E o \in order_by_start_time(range_rows(time_entries, start_of_week(date),
                                               end_of_week(date))) :
         LET entries == list_time_entries_by_date_range(o)
         IN  \E order \in Orders(Keys(entries)) :
               Enter(p, "idle",
                     Returned(Started(p, [NoLocal EXCEPT !.op = "weekly_report",
                                                         !.date = Some(date)]),
                              Ok(TimeReport_new(entries, start_of_week(date),
                                                end_of_week(date), order))))
    /\ UNCHANGED <<Store, now, nextId>>

\* The days 4 and 11 (1970-01-05 and 1970-01-12) are Mondays.
Mondays == {4, 11}

\* The instants of the weeks that begin on those Mondays at which a report is
\* asked for: the first and the last instant of each day.
WeekDates ==
    {day * TicksPerDay + k : day \in 4..17, k \in {0, TicksPerDay - 1}}

\* The instants at which the stored entries start: the last instant of the
\* Sunday before, Monday 00:00:00, an instant of Thursday, Sunday 23:59:59, the
\* instant after it, the next Monday 00:00:00 and the end of the next week.
WeekTimes ==
    {4 * TicksPerDay - 1, 4 * TicksPerDay, 7 * TicksPerDay + 1,
     and_hms(10, SecondsPerDay - 1), and_hms(10, SecondsPerDay - 1) + 1,
     11 * TicksPerDay, 18 * TicksPerDay - 1}

\* The store holds up to three finished entries of the two projects, inserted
\* in the order of their start times.
InitWeekReports ==
    /\ projects = {Project_new(1, "Acme", None), Project_new(2, "Beta", None)}
    /\ \E n \in {0} \cup EntryIds :
         \E name \in [1..n -> Names], start \in [1..n -> WeekTimes] :
            /\ \A i, j \in 1..n : i < j => start[i] <= start[j]
            /\ time_entries =
                 {time_entry_to_row(stopped_entry(i, name[i], start[i])) : i \in 1..n}
    /\ active_timer = {}
    /\ now = 19 * TicksPerDay
    /\ nextId = Cardinality(EntryIds) + 1
    /\ pc = [p \in Procs |-> "idle"]
    /\ local = [p \in Procs |-> NoLocal]
    /\ overlaps = 0
    /\ connection = None

\* ---------------------------------------------------------------- ClientDiscoveryService::discover_clients
\* The names directories have, in the order of str::cmp.
DirOrder == <<"Acme", "Beta">>

\* format!("{} {}", prefix, dir.name), on the names of the model.
format_prefix(prefix, name) ==
    IF name = "Acme" THEN "[CLIENT] Acme" ELSE "[CLIENT] Beta"

Prefixes      == {"[CLIENT]"}
DiscoverNames == {"Acme", "Beta", "[CLIENT] Acme", "[CLIENT] Beta"}

\* generate_description: the pieces joined by " ".
generate_description(name, path, is_git_repo) ==
    Some(<<"Client project">>
         \o (IF is_git_repo THEN <<"(Git repository)">> ELSE <<>>)
         \o <<"Location: ", path>>)

\* analyze_directory
analyze_directory(name, path, is_git_repo) ==
    [name |-> name, path |-> path, is_git_repo |-> is_git_repo,
     suggested_description |-> generate_description(name, path, is_git_repo)]

\* scan_client_directories on a base path that holds the directories `names`:
\* the ClientDirectory of each, sorted by name.
scan_client_directories(names, is_git_repo) ==
    LET found == SelectSeq(DirOrder, LAMBDA n : n \in names)
    IN  [i \in 1..Len(found) |-> analyze_directory(found[i], found[i], is_git_repo[found[i]])]

DiscoveryResult_new(directories) ==
    [discovered_directories |-> directories, created_projects |-> <<>>,
     updated_projects |-> <<>>, skipped_directories |-> <<>>, errors |-> <<>>]

\* let project_name = match &options.project_prefix { .. }
discovered_name(options, dir) ==
    IF IsSome(options.project_prefix)
    THEN format_prefix(Unwrap(options.project_prefix), dir.name)
    ELSE dir.name

\* The loop of discover_clients goes on to the next directory, or returns
\* Ok(result) after the last.
NextDirectory(p, l) ==
    LET rest == Tail(l.directories)
    IN  IF rest = <<>>
        THEN Goto(p, "idle", Returned([l EXCEPT !.directories = rest],
                                      Ok(Unwrap(l.discovery))))
        ELSE Goto(p, "dc_get", [l EXCEPT !.directories = rest])

\* let directories = self.scan_client_directories(..)?;
\* result.discovered_directories = directories.clone(); for dir in directories { .. }
DiscoverClients(p, names, is_git_repo, prefix, dry_run) ==
    /\ CanBegin(p)
    /\ LET directories == scan_client_directories(names, is_git_repo)
           l == Started(p, [NoLocal EXCEPT
                               !.op = "discover_clients",
                               !.options = Some([project_prefix |-> prefix,
                                                 dry_run |-> dry_run]),
                               !.directories = directories,
                               !.discovery = Some(DiscoveryResult_new(directories))])
       IN  IF directories = <<>>
           THEN Enter(p, "idle", Returned(l, Ok(Unwrap(l.discovery))))
           ELSE Enter(p, "dc_get", l)
    /\ UNCHANGED <<Store, now, nextId>>

\* The base path does not exist: scan_client_directories fails and `?` returns.
DiscoverNoBasePath(p, prefix, dry_run) ==
    /\ CanBegin(p)
    /\ Enter(p, "idle",
             Returned(Started(p, [NoLocal EXCEPT
                                     !.op = "discover_clients",
                                     !.options = Some([project_prefix |-> prefix,
                                                       dry_run |-> dry_run])]),
                      Err("InvalidDuration", "Base path does not exist")))
    /\ UNCHANGED <<Store, now, nextId>>

\* process_client_directory paying no attention to dry_run.
ProcessGet_wet(p) ==
    /\ pc[p] = "dc_get"
    /\ LET options == Unwrap(local[p].options)
           dir     == Head(local[p].directories)
           project_name == discovered_name(options, dir)
           found   == get_project(projects, project_name)
       IN       IF IsSome(found)
                THEN /\ Goto(p, "dc_update", [local[p] EXCEPT !.project = found])
                     /\ UNCHANGED nextId
                ELSE /\ nextId <= MaxId
                     /\ nextId' = nextId + 1
                     /\ Goto(p, "dc_create",
                             [local[p] EXCEPT !.project =
                                 Some(Project_new_client_project(
                                          nextId, project_name,
                                          dir.suggested_description, dir.path))])
    /\ UNCHANGED <<Store, now>>

\* process_client_directory: match self.project_service.get_project(&project_name)
\* A project read from its row has no directory_path, so an existing project
\* always differs from the directory's path.
ProcessGet(p) ==
    /\ pc[p] = "dc_get"
    /\ LET options == Unwrap(local[p].options)
           dir     == Head(local[p].directories)
           project_name == discovered_name(options, dir)
           found   == get_project(projects, project_name)
       IN  IF options.dry_run
           THEN /\ NextDirectory(p, local[p])
                /\ UNCHANGED nextId
           ELSE IF IsSome(found)
                THEN /\ Goto(p, "dc_update", [local[p] EXCEPT !.project = found])
                     /\ UNCHANGED nextId
                ELSE /\ nextId <= MaxId
                     /\ nextId' = nextId + 1
                     /\ Goto(p, "dc_create",
                             [local[p] EXCEPT !.project =
                                 Some(Project_new_client_project(
                                          nextId, project_name,
                                          dir.suggested_description, dir.path))])
    /\ UNCHANGED <<Store, now>>

\* self.repository.update_project(&updated_project).await?;
\* result.updated_projects.push(updated_project);
ProcessUpdate(p) ==
    /\ pc[p] = "dc_update"
    /\ LET dir == Head(local[p].directories)
           existing == Unwrap(local[p].project)
           updated_project ==
               Project_new_client_project(existing.id, existing.name,
                                          existing.description, dir.path)
           result == Unwrap(local[p].discovery)
       IN  /\ projects' = update_project(projects, updated_project)
           /\ NextDirectory(p, [local[p] EXCEPT !.discovery =
                   Some([result EXCEPT !.updated_projects =
                                           Append(@, updated_project)])])
    /\ UNCHANGED <<time_entries, active_timer, now, nextId>>

\* self.repository.create_project(&new_project).await?;
\* result.created_projects.push(new_project);
\* An error is pushed to result.errors by the loop of discover_clients.
ProcessCreate(p) ==
    /\ pc[p] = "dc_create"
    /\ LET dir == Head(local[p].directories)
           new_project == Unwrap(local[p].project)
           result == Unwrap(local[p].discovery)
       IN  IF create_project_violates(projects, new_project)
           THEN /\ UNCHANGED projects
                /\ NextDirectory(p, [local[p] EXCEPT !.discovery =
                        Some([result EXCEPT !.errors =
                                 Append(@, <<"Error processing ", dir.name, ": ",
                                             Display(Err("ProjectAlreadyExists",
                                                         new_project.name))>>)])])
           ELSE /\ projects' = create_project(projects, new_project)
                /\ NextDirectory(p, [local[p] EXCEPT !.discovery =
                        Some([result EXCEPT !.created_projects =
                                                Append(@, new_project)])])
    /\ UNCHANGED <<time_entries, active_timer, now, nextId>>

\* The store holds no project or one project, under any of the names a
\* discovery looks for.
InitDiscover ==
    /\ \E prior \in SUBSET DiscoverNames :
         /\ Cardinality(prior) <= 1
         /\ projects = {Project_new(1, name, None) : name \in prior}
         /\ nextId = Cardinality(prior) + 1
    /\ time_entries = {}
    /\ active_timer = {}
    /\ now = 0
    /\ pc = [p \in Procs |-> "idle"]
    /\ local = [p \in Procs |-> NoLocal]
    /\ overlaps = 0
    /\ connection = None

\* ---------------------------------------------------------------- SqliteRepository: the connection lock
\* A guard that is never dropped.
MutexGuard_forget(holder) == holder

\* The MutexGuard `conn` goes out of scope: the lock is free.
MutexGuard_drop(holder) == None

\* The gateway operations that take the lock once.
GatewayOps ==
    {"get_project_by_name", "create_project", "create_time_entry",
     "save_active_timer", "get_active_timer", "clear_active_timer"}

\* The store and the result a gateway operation leaves, its statement
\* succeeding.
gateway_body(op, l) ==
    LET st == Snapshot
    IN  CASE op = "get_project_by_name" ->
               [store |-> st, result |-> Ok(get_project_by_name(projects, l.name))]
          [] op = "create_project" ->
               IF create_project_violates(projects, Unwrap(l.project))
               THEN [store |-> st, result |-> Err("ProjectAlreadyExists", l.name)]
               ELSE [store |-> [st EXCEPT !.projects =
                                    create_project(projects, Unwrap(l.project))],
                     result |-> Ok("")]
          [] op = "create_time_entry" ->
               [store |-> [st EXCEPT !.time_entries =
                               create_time_entry(time_entries, Unwrap(l.entry))],
                result |-> Ok("")]
          [] op = "save_active_timer" ->
               [store |-> [st EXCEPT !.active_timer =
                               save_active_timer(active_timer, Unwrap(l.timer))],
                result |-> Ok("")]
          [] op = "get_active_timer" ->
               [store |-> st, result |-> Ok(get_active_timer(active_timer))]
          [] OTHER ->
               [store |-> [st EXCEPT !.active_timer = clear_active_timer(active_timer)],
                result |-> Ok("")]

\* A caller invokes one gateway operation and comes to its first
\* self.connection.lock(); delete_project first awaits get_project_by_id.
GatewayInvoke(p, op) ==
    /\ CanBegin(p)
    /\ local[p].op = "none"
    /\ Enter(p, IF op = "delete_project" THEN "dp_inner_lock" ELSE "gw_lock",
             Started(p, [NoLocal EXCEPT
                            !.op = op, !.name = "Acme",
                            !.project = Some(Project_new(1, "Acme", None)),
                            !.timer = Some(Timer_new(1, 1, "Acme", None, 0)),
                            !.entry = Some(TimeEntry_stop(
                                               TimeEntry_new(1, 1, "Acme", None, 0,
                                                             TicksPerSecond),
                                               TicksPerSecond, TicksPerSecond))]))
    /\ UNCHANGED <<Store, now, nextId>>

\* let conn = self.connection.lock().unwrap(): the caller goes on when the
\* lock is free, and holds it.
Lock(p) ==
    /\ pc[p] \in {"gw_lock", "dp_inner_lock", "dp_lock"}
    /\ connection = None
    /\ connection' = Some(p)
    /\ Jump(p, CASE pc[p] = "gw_lock"       -> "gw_held"
                 [] pc[p] = "dp_inner_lock" -> "dp_inner_held"
                 [] OTHER                   -> "dp_held",
            local[p])
    /\ UNCHANGED <<Store, now, nextId>>

\* The body of a gateway operation, under the lock; it returns, by `?` when a
\* statement fails, and the guard is dropped.
GatewayBody(p) ==
    /\ pc[p] = "gw_held"
    /\ connection' = MutexGuard_drop(connection)
    /\ \/ LET out == gateway_body(local[p].op, local[p])
          IN  /\ projects' = out.store.projects
              /\ time_entries' = out.store.time_entries
              /\ active_timer' = out.store.active_timer
              /\ Jump(p, "idle", Returned(local[p], out.result))
       \/ /\ UNCHANGED Store
          /\ Jump(p, "idle", Returned(local[p], Err("Database", rusqlite_Error)))
    /\ UNCHANGED <<now, nextId>>

\* delete_project: let project = self.get_project_by_id(id).await?;
\* the inner call returns and its guard is dropped.
DeleteInner(p) ==
    /\ pc[p] = "dp_inner_held"
    /\ connection' = MutexGuard_drop(connection)
    /\ \/ LET id == Unwrap(local[p].project).id
              project == get_project_by_id(projects, id)
          IN  Jump(p, "dp_lock",
                   [local[p] EXCEPT !.project_name =
                        IF IsSome(project) THEN Unwrap(project).name ELSE ToString(id)])
       \/ Jump(p, "idle", Returned(local[p], Err("Database", rusqlite_Error)))
    /\ UNCHANGED <<Store, now, nextId>>

\* delete_project under its own lock: the count, the early return on
\* count > 0, the DELETE; on each return the guard is dropped.
DeleteBody(p) ==
    /\ pc[p] = "dp_held"
    /\ connection' = MutexGuard_drop(connection)
    /\ LET id == Unwrap(local[p].project).id
       IN  \/ IF count_entries_of(time_entries, id) > 0
              THEN /\ Jump(p, "idle", Returned(local[p],
                               Err("ProjectHasTimeEntries", local[p].project_name)))
                   /\ UNCHANGED projects
              ELSE /\ projects' = delete_project(projects, id)
                   /\ Jump(p, "idle", Returned(local[p], Ok("")))
           \/ /\ Jump(p, "idle", Returned(local[p], Err("Database", rusqlite_Error)))
              /\ UNCHANGED projects
    /\ UNCHANGED <<time_entries, active_timer, now, nextId>>

\* The store before the calls: with or without the project "Acme", an entry
\* of it and a running timer.
InitLock ==
    /\ \E has_project, has_entry, has_timer \in BOOLEAN :
         /\ has_entry => has_project
         /\ projects = IF has_project
                       THEN {project_to_row(Project_new(1, "Acme", None))} ELSE {}
         /\ time_entries = IF has_entry
                           THEN {time_entry_to_row(stopped_entry(2, "Acme", 0))} ELSE {}
         /\ active_timer = IF has_timer
                           THEN {timer_to_row(Timer_new(2, 1, "Acme", None, 0))} ELSE {}
    /\ now = TicksPerSecond
    /\ nextId = 3
    /\ pc = [p \in Procs |-> "idle"]
    /\ local = [p \in Procs |-> NoLocal]
    /\ overlaps = 0
    /\ connection = None

\* ---------------------------------------------------------------- GitService::analyze_commit
\* A message is the sequence of its words; a word stands for any text that
\* holds it.  str::to_lowercase, on the words the model has.
to_lowercase(msg) ==
    [i \in 1..Len(msg) |-> IF msg[i] = "FIX" THEN "fix" ELSE msg[i]]

starts_with(msg, w) == Len(msg) >= 1 /\ msg[1] = w

\* GitCommit::detect_commit_type
detect_commit_type(commit) ==
    LET msg == to_lowercase(commit.message)
    IN  IF starts_with(msg, "feat") \/ Contains(msg, "feature") \/ Contains(msg, "add")
        THEN "Feature"
        ELSE IF starts_with(msg, "fix") \/ Contains(msg, "bug") \/ Contains(msg, "error")
        THEN "BugFix"
        ELSE IF starts_with(msg, "refactor") \/ Contains(msg, "refactor")
        THEN "Refactor"
        ELSE IF starts_with(msg, "docs") \/ Contains(msg, "documentation")
        THEN "Documentation"
        ELSE IF starts_with(msg, "test") \/ Contains(msg, "test")
        THEN "Test"
        ELSE IF starts_with(msg, "chore") \/ Contains(msg, "chore")
        THEN "Chore"
        ELSE "Other"

\* The counters are u32: a sum beyond the width either wraps or, in a build
\* with overflow checks, panics.
CountModulus == 2 ^ CountBits
overflows(commit) == commit.insertions + commit.deletions >= CountModulus

\* GitCommit::total_changes, wrapping.
total_changes(commit) == (commit.insertions + commit.deletions) % CountModulus

\* files_changed is kept as the number of files of each extension; len().
files_len(commit) ==
    commit.files_changed.rs + commit.files_changed.js + commit.files_changed.md
        + commit.files_changed.other

Min(a, b) == IF a <= b THEN a ELSE b

\* match commit_type { .. => Duration::minutes(..) }
base_minutes(commit_type) ==
    CASE commit_type = "Feature"       -> 45
      [] commit_type = "BugFix"        -> 60
      [] commit_type = "Refactor"      -> 30
      [] commit_type = "Documentation" -> 15
      [] commit_type = "Test"          -> 25
      [] commit_type = "Chore"         -> 10
      [] commit_type = "Other"         -> 20

\* calculate_complexity_score, in two-hundredths:
\* ((total / 100).min(3.0) + (files / 10).min(2.0)) / 2
complexity_score_200(commit) ==
    Min(total_changes(commit), 300) + 10 * Min(files_len(commit), 20)

\* The bonus per file: 5 for .rs, 3 for .js and .ts, 1 for .md, else 0.
file_weight_bonus(commit) ==
    5 * commit.files_changed.rs + 3 * commit.files_changed.js + commit.files_changed.md

\* estimate_commit_time, in minutes.  The f32 products are taken exactly:
\*   (base * (1.0 + score * 0.5)) as i64, ((total / 50).min(3.0) * 10.0) as i64,
\*   base_time.min(Duration::hours(4))
estimate_commit_time(commit, commit_type, score_200) ==
    LET adjusted_minutes == (base_minutes(commit_type) * (400 + score_200)) \div 400
        changes_minutes  == Min(total_changes(commit), 150) \div 5
    IN  Min(adjusted_minutes + changes_minutes + file_weight_bonus(commit), 4 * 60)

\* The commits analyze_commit is given.
Words    == {"feat", "fix", "FIX", "add", "refactor", "docs", "test", "chore", "wip"}
Messages == {<<>>} \cup {<<w>> : w \in Words} \cup {<<"wip", "add">>, <<"fix", "test">>}
Counts   == {0, 1, 60, 300, CountModulus - 1}
Commits  ==
    [message : Messages,
     files_changed : [rs : 0..MaxFiles, js : {0, 1}, md : {0, 1}, other : {0, 1}],
     insertions : Counts, deletions : Counts]

\* The caller holds the commit it is about to pass.
InitGit ==
    /\ projects = {}
    /\ time_entries = {}
    /\ active_timer = {}
    /\ now = 0
    /\ nextId = 1
    /\ pc = [p \in Procs |-> "idle"]
    /\ \E commit \in Commits :
         local = [p \in Procs |-> IF p = Main THEN [NoLocal EXCEPT !.commit = Some(commit)]
                                               ELSE NoLocal]
    /\ overlaps = 0
    /\ connection = None

\* analyze_commit: detect_commit_type, calculate_complexity_score,
\* estimate_commit_time.  overflow_checks is the build's setting.
AnalyzeCommit(p, overflow_checks) ==
    /\ CanBegin(p)
    /\ local[p].op = "none" /\ IsSome(local[p].commit)
    /\ LET commit == Unwrap(local[p].commit)
           l == Started(p, [local[p] EXCEPT !.op = "analyze_commit"])
           commit_type == detect_commit_type(commit)
           score == complexity_score_200(commit)
       IN  IF overflows(commit) /\ overflow_checks
           THEN Enter(p, "idle", Returned(l, Err("Panic", "attempt to add with overflow")))
           ELSE Enter(p, "idle",
                      Returned(l, Ok([commit_type |-> commit_type,
                                      complexity_score_200 |-> score,
                                      estimated_duration |->
                                          estimate_commit_time(commit, commit_type, score)])))
    /\ UNCHANGED <<Store, now, nextId>>

\* ---------------------------------------------------------------- store failures
\* Any rusqlite call may return Err, which `?` turns into Err(Database).
Ops == {"create_project", "start_timer", "stop_timer", "add_tag"}

\* The first gateway call of a call fails: nothing is read or written.
FirstCallFail(p, op) ==
    /\ CanBegin(p)
    /\ Enter(p, "idle", Returned(Started(p, [NoLocal EXCEPT !.op = op]), Err("Database", rusqlite_Error)))
    /\ UNCHANGED <<Store, now, nextId>>

\* The first statement of the pending gateway call fails: nothing is written.
GatewayFail(p) ==
    /\ InFlight(p)
    /\ Finish(p, Err("Database", rusqlite_Error))
    /\ UNCHANGED <<Store, now, nextId>>

\* save_active_timer runs DELETE and INSERT as two autocommitted statements:
\* the INSERT fails after the DELETE has been applied.
SaveInsertFail(p) ==
    /\ pc[p] \in {"st_save", "tg_save"}
    /\ active_timer' = active_timer \ active_timer
    /\ Finish(p, Err("Database", rusqlite_Error))
    /\ UNCHANGED <<projects, time_entries, now, nextId>>

\* ---------------------------------------------------------------- command line
\* The service call behind each command of Cli that the model has.
Commands == {"start_timer", "stop_timer", "get_current_status", "create_project"}

\* The handlers that match on the result: Err(e) => { eprintln!("Error: {}", e); Err(e) }
\* handle_status passes the error on with `?` and prints nothing.
handler_stderr(op, r) ==
    IF op \in {"start_timer", "stop_timer", "create_project"}
    THEN <<(<<"Error: ">> \o Display(r))>>
    ELSE <<>>

\* main: if let Err(e) = app.run(cli).await { eprintln!("Error: {}", e); exit(1) }
main_stderr(r) == <<(<<"Error: ">> \o Display(r))>>

\* The lines on stderr of a command whose service call returned the error r.
stderr(op, r) == handler_stderr(op, r) \o main_stderr(r)

\* ---------------------------------------------------------------- specifications
Next ==
    \E p \in Procs :
        \/ \E name \in ProjectNames, description \in Opt(Descs) : CreateProject(p, name, description)
        \/ CreateProjectInsert(p)
        \/ \E name \in Names, task \in Opt(Tasks) : StartTimer(p, name, task)
        \/ StartProj(p)
        \/ StartSave(p)
        \/ StopTimer(p)
        \/ StopCreate(p)
        \/ StopClear(p)
        \/ \E tag \in Tags : AddTag(p, tag)
        \/ TagSave(p)

\* The store never fails.
Spec == Init /\ [][Next]_vars

NextFault ==
    \/ Next
    \/ \E p \in Procs, op \in Ops : FirstCallFail(p, op)
    \/ \E p \in Procs : GatewayFail(p)
    \/ \E p \in Procs : SaveInsertFail(p)

\* The store may fail at any gateway call.
SpecFault == Init /\ [][NextFault]_vars

\* createProject is also called with the empty string.
NextAnyName ==
    \/ Next
    \/ \E p \in Procs, description \in Opt(Descs) : CreateProject(p, "", description)

SpecAnyName == Init /\ [][NextAnyName]_vars

\* One caller issues its calls one after another: every operation of the
\* project service and of the time-tracking service.
NextOneCaller ==
    \/ \E name \in ProjectNames, description \in Opt(Descs) : CreateProject(Main, name, description)
    \/ CreateProjectInsert(Main)
    \/ \E name \in Names : DeleteProject(Main, name)
    \/ DeleteById(Main)
    \/ DeleteCount(Main)
    \/ \E name \in Names, task \in Opt(Tasks) : StartTimer(Main, name, task)
    \/ StartProj(Main)
    \/ StartSave(Main)
    \/ StopTimer(Main)
    \/ StopCreate(Main)
    \/ StopClear(Main)
    \/ \E tag \in Tags : AddTag(Main, tag)
    \/ TagSave(Main)
    \/ GetCurrentStatus(Main)

SpecOneCaller == Init /\ [][NextOneCaller]_vars

\* TimeReport::new is applied to lists of entries.
NextTimeReport ==
    \E order \in Orders(Keys(local[Main].entries)) : NewReport(Main, order)

SpecTimeReport == InitTimeReport /\ [][NextTimeReport]_vars

\* A report is asked for over a store of finished entries.  A report changes
\* nothing, so a second one would see what the first saw: one per run.
NextReports ==
    \E date \in ReportTimes : local[Main].op = "none" /\ DailyReport(Main, date)

SpecReports == InitReports /\ [][NextReports]_vars

\* The store after create_project("Acme") and start_timer("Acme") at reading 0.
\* Ids are compared within one table only: the project and the timer are the
\* first of their tables.
InitRunning ==
    /\ projects = {project_to_row(Project_new(1, "Acme", None))}
    /\ time_entries = {}
    /\ active_timer = {timer_to_row(Timer_new(1, 1, "Acme", None, 0))}
    /\ now = 0
    /\ nextId = 2
    /\ pc = [p \in Procs |-> "idle"]
    /\ local = [p \in Procs |-> NoLocal]
    /\ overlaps = 0
    /\ connection = None

\* The timer operations, called concurrently.
NextTimer ==
    \E p \in Procs :
        \/ \E name \in Names, task \in Opt(Tasks) : StartTimer(p, name, task)
        \/ StartProj(p)
        \/ StartSave(p)
        \/ StopTimer(p)
        \/ StopCreate(p)
        \/ StopClear(p)
        \/ \E tag \in Tags : AddTag(p, tag)
        \/ TagSave(p)

SpecRunning == InitRunning /\ [][NextTimer]_vars

\* Each caller invokes one gateway operation; the calls run concurrently.
NextLock ==
    \E p \in Procs :
        \/ \E op \in GatewayOps \cup {"delete_project"} : GatewayInvoke(p, op)
        \/ Lock(p)
        \/ GatewayBody(p)
        \/ DeleteInner(p)
        \/ DeleteBody(p)

\* A thread that waits for the lock gets it once the lock stays free, and a
\* thread that holds it runs on: the bodies do not await and do not block.
SpecLock ==
    /\ InitLock /\ [][NextLock]_vars
    /\ \A p \in Procs :
         WF_vars(Lock(p) \/ GatewayBody(p) \/ DeleteInner(p) \/ DeleteBody(p))

\* A weekly report is asked for over a store of finished entries, one per run.
NextWeekReports ==
    \E date \in WeekDates : local[Main].op = "none" /\ WeeklyReport(Main, date)

SpecWeekReports == InitWeekReports /\ [][NextWeekReports]_vars

\* Discoveries run one after the other over the directories of a base path,
\* which are all git repositories or none.
NextDiscover ==
    \/ \E names \in SUBSET {DirOrder[i] : i \in 1..Len(DirOrder)},
          prefix \in Opt(Prefixes), dry_run \in BOOLEAN :
          \E git \in BOOLEAN :
             DiscoverClients(Main, names, [n \in names |-> git], prefix, dry_run)
    \/ \E prefix \in Opt(Prefixes), dry_run \in BOOLEAN :
          DiscoverNoBasePath(Main, prefix, dry_run)
    \/ ProcessGet(Main)
    \/ ProcessUpdate(Main)
    \/ ProcessCreate(Main)

SpecDiscover == InitDiscover /\ [][NextDiscover]_vars

\* analyze_commit is applied to a commit, in a build with or without overflow
\* checks.
NextGit ==
    \E overflow_checks \in BOOLEAN : AnalyzeCommit(Main, overflow_checks)

SpecGit == InitGit /\ [][NextGit]_vars

\* ================================================================ properties
\* p's last call was `op`, it ran with no other call in flight, and no call
\* has begun since: the store now is the store the call left.
Solo(p, op) == Completed(p) /\ local[p].op = op /\ local[p].solo
Res(p)      == Unwrap(local[p].result)
Pre(p)      == Unwrap(local[p].pre)
Running(tbl) == tbl # {}
NameSet(tbl) == {r.name : r \in tbl}
NoDup(seq)   == \A i, j \in 1..Len(seq) : seq[i] = seq[j] => i = j

\* C1: in every reachable state, under any interleaving of the calls, the
\* active_timer table holds zero or one rows.
C1_AtMostOneActiveTimer == Cardinality(active_timer) <= 1

\* Two overlapping startTimer calls have both saved their timer.
C1_Witness ==
    /\ \A p \in Procs : Completed(p) /\ local[p].op = "start_timer"
                        /\ ~local[p].solo /\ Res(p).kind = "Ok"
    /\ Cardinality(active_timer) = 1

\* C2: startTimer called while a timer is Running, with no concurrent call,
\* fails with TimerAlreadyRunning and leaves the active_timer row as it was.
C2_StartWhileRunning ==
    \A p \in Procs :
        Solo(p, "start_timer") /\ Running(Pre(p).active_timer)
        => /\ Res(p).kind = "TimerAlreadyRunning"
           /\ active_timer = Pre(p).active_timer

C2_Witness ==
    \E p \in Procs :
        /\ Solo(p, "start_timer") /\ Running(Pre(p).active_timer)
        /\ Res(p).kind = "TimerAlreadyRunning"
        /\ Res(p).val = Some("Acme")

\* C3: stopTimer called while Idle fails with NoActiveTimer, creates no time
\* entry and leaves the slot empty.
C3_StopWhileIdle ==
    \A p \in Procs :
        Solo(p, "stop_timer") /\ ~Running(Pre(p).active_timer)
        => /\ Res(p).kind = "NoActiveTimer"
           /\ time_entries = Pre(p).time_entries
           /\ active_timer = {}

C3_Witness ==
    \E p \in Procs :
        /\ Solo(p, "stop_timer") /\ ~Running(Pre(p).active_timer)
        /\ Res(p).kind = "NoActiveTimer"
        /\ projects # {}

\* The clock readings of a start-then-stop: s is the start_time of the timer
\* the stop call found, e the reading the stop call took (the latest reading:
\* the call ran alone and no call has begun since).
StartReading(p) == Unwrap(get_active_timer(Pre(p).active_timer)).start_time
StopReading     == now

\* C4 as stated: for every e >= s, stopTimer on the running timer succeeds
\* with duration e - s and leaves the machine Idle.
C4_Original ==
    \A p \in Procs :
        Solo(p, "stop_timer") /\ Running(Pre(p).active_timer)
        /\ StopReading >= StartReading(p)
        => /\ Res(p).kind = "Ok"
           /\ Unwrap(Res(p).val).duration = Some(StopReading - StartReading(p))
           /\ get_active_timer(active_timer) = None

\* C4 (amended): for every e > s, startTimer on an Idle machine followed by
\* stopTimer with nothing in between succeeds, returns a TimeEntry whose
\* duration is e - s, and leaves the machine Idle.
C4_StartThenStop ==
    \A p \in Procs :
        Solo(p, "stop_timer") /\ Running(Pre(p).active_timer)
        /\ StopReading > StartReading(p)
        => /\ Res(p).kind = "Ok"
           /\ Unwrap(Res(p).val).duration = Some(StopReading - StartReading(p))
           /\ get_active_timer(active_timer) = None

\* A timer started at reading 1 is stopped at reading 2.
C4_Witness ==
    \E p \in Procs :
        /\ Solo(p, "stop_timer") /\ Running(Pre(p).active_timer)
        /\ StartReading(p) = 1 /\ StopReading = 2
        /\ Res(p).kind = "Ok"
        /\ Unwrap(Res(p).val).tags = <<>>
        /\ active_timer = {}

\* C5: whenever startTimer or stopTimer returns an error, store failures
\* included, the active_timer and time_entries tables are what they were
\* before the call.
C5_NoPartialWrite ==
    \A p \in Procs :
        (Solo(p, "start_timer") \/ Solo(p, "stop_timer")) /\ IsErr(Res(p))
        => /\ active_timer = Pre(p).active_timer
           /\ time_entries = Pre(p).time_entries

\* C6: startTimer called while Idle with a name that is not in the store fails
\* with ProjectNotFound and persists no ActiveTimer.
C6_StartUnknownProject ==
    \A p \in Procs :
        Solo(p, "start_timer") /\ ~Running(Pre(p).active_timer)
        /\ local[p].name \notin NameSet(Pre(p).projects)
        => /\ Res(p).kind = "ProjectNotFound"
           /\ Res(p).val = Some(local[p].name)
           /\ active_timer = {}

\* The unknown name is asked for while another project exists.
C6_Witness ==
    \E p \in Procs :
        /\ Solo(p, "start_timer") /\ ~Running(Pre(p).active_timer)
        /\ local[p].name \notin NameSet(Pre(p).projects)
        /\ Pre(p).projects # {}
        /\ Res(p).kind = "ProjectNotFound"

\* The fields stop_timer carries over from the timer to the entry.
Carried(x) == <<x.project_id, x.project_name, x.task_description, x.start_time, x.tags>>

\* C7: a successful stopTimer returns and persists a TimeEntry whose project
\* id, project name, task description, start time and tags are those of the
\* ActiveTimer that was in the slot, with end_time the stop-call time; with no
\* tag on the timer the entry's tags are empty.
C7_EntryCarriesTimer ==
    \A p \in Procs :
        Solo(p, "stop_timer") /\ Res(p).kind = "Ok"
        => LET timer == Unwrap(get_active_timer(Pre(p).active_timer))
               entry == Unwrap(Res(p).val)
               added == time_entries \ Pre(p).time_entries
           IN  /\ Carried(entry) = Carried(timer)
               /\ entry.end_time = Some(StopReading)
               /\ timer.tags = <<>> => entry.tags = <<>>
               /\ Cardinality(added) = 1
               /\ \A row \in added :
                    /\ row.id = entry.id
                    /\ Carried(time_entry_from_row(row)) = Carried(timer)
                    /\ time_entry_from_row(row).end_time = Some(StopReading)

\* A timer with a task and two tags is stopped.
C7_Witness ==
    \E p \in Procs :
        /\ Solo(p, "stop_timer") /\ Res(p).kind = "Ok"
        /\ Unwrap(Res(p).val).tags = <<"rust", "dev">>
        /\ Unwrap(Res(p).val).task_description = Some("design")
        /\ \E row \in time_entries : row.tags = Some(<<"rust", "dev">>)

\* C8: adding a tag is idempotent.  No tag list, of the active timer or of an
\* entry, holds a tag twice; a call adding a tag appends it when it is new and
\* changes nothing when it is present; the entry of the following stopTimer has
\* the timer's tag list, in its order.
C8_TagsIdempotent ==
    /\ \A row \in active_timer : NoDup(tags_from_json(row.tags))
    /\ \A row \in time_entries : NoDup(tags_from_json(row.tags))
    /\ \A p \in Procs :
        Solo(p, "add_tag") /\ Res(p).kind = "Ok"
        => LET before == Unwrap(get_active_timer(Pre(p).active_timer)).tags
               after  == Unwrap(get_active_timer(active_timer)).tags
           IN  after = IF Contains(before, local[p].tag) THEN before
                       ELSE Append(before, local[p].tag)
    /\ \A p \in Procs :
        Solo(p, "stop_timer") /\ Res(p).kind = "Ok"
        => Unwrap(Res(p).val).tags = Unwrap(get_active_timer(Pre(p).active_timer)).tags

\* A tag is added a second time to a timer that holds two tags.
C8_Witness ==
    \E p \in Procs :
        /\ Solo(p, "add_tag") /\ Res(p).kind = "Ok"
        /\ local[p].tag = "dev"
        /\ Unwrap(get_active_timer(Pre(p).active_timer)).tags = <<"dev", "rust">>
        /\ Unwrap(get_active_timer(active_timer)).tags = <<"dev", "rust">>

\* C9: addTagToActiveTimer called while Idle fails with NoActiveTimer and
\* leaves the slot empty.
C9_AddTagWhileIdle ==
    \A p \in Procs :
        Solo(p, "add_tag") /\ ~Running(Pre(p).active_timer)
        => /\ Res(p).kind = "NoActiveTimer"
           /\ active_timer = {}

C9_Witness ==
    \E p \in Procs :
        /\ Solo(p, "add_tag") /\ ~Running(Pre(p).active_timer)
        /\ Res(p).kind = "NoActiveTimer"
        /\ time_entries # {}

\* C10: createProject with a name already in the store fails with
\* ProjectAlreadyExists; the store still holds exactly one project of that
\* name, with its original id and description.
C10_CreateDuplicate ==
    \A p \in Procs :
        Solo(p, "create_project") /\ local[p].name \in NameSet(Pre(p).projects)
        => /\ Res(p).kind = "ProjectAlreadyExists"
           /\ Res(p).val = Some(local[p].name)
           /\ projects = Pre(p).projects
           /\ Cardinality({r \in projects : r.name = local[p].name}) = 1

\* The second call asks for another description than the stored one.
C10_Witness ==
    \E p \in Procs :
        /\ Solo(p, "create_project") /\ local[p].name \in NameSet(Pre(p).projects)
        /\ Res(p).kind = "ProjectAlreadyExists"
        /\ \E r \in projects : r.name = local[p].name /\ r.description # local[p].description

\* C11: createProject called with the empty string as name returns an error
\* and adds no project to the store.
C11_CreateEmptyName ==
    \A p \in Procs :
        Solo(p, "create_project") /\ local[p].name = ""
        => /\ IsErr(Res(p))
           /\ projects = Pre(p).projects

\* C12: for every name not yet in the store and every optional description,
\* createProject followed by getProject of that name returns a project with
\* exactly that name and description and the id createProject returned.
C12_CreateThenGet ==
    \A p \in Procs :
        Solo(p, "create_project") /\ local[p].name \notin NameSet(Pre(p).projects)
        => /\ Res(p).kind = "Ok"
           /\ LET got == get_project(projects, local[p].name)
              IN  /\ IsSome(got)
                  /\ Unwrap(got).name = local[p].name
                  /\ Unwrap(got).description = local[p].description
                  /\ Unwrap(got).id = Unwrap(Res(p).val).id

\* A project with a description has been created and is read back.
C12_Witness ==
    \E p \in Procs :
        /\ Solo(p, "create_project") /\ local[p].name \notin NameSet(Pre(p).projects)
        /\ local[p].description = Some("d")
        /\ Res(p).kind = "Ok"
        /\ Unwrap(get_project(projects, "Acme")).description = Some("d")

\* The entries that reference the project named `name` in the store `st`.
EntriesOf(st, name) ==
    {e \in st.time_entries : \E r \in st.projects : r.name = name /\ e.project_id = r.id}

\* C13: deleteProject on a project with no time entry succeeds and removes
\* it; on a project that one or more time entries reference it fails with
\* ProjectHasTimeEntries and leaves the project row and the entries unchanged.
C13_DeleteProject ==
    \A p \in Procs :
        Solo(p, "delete_project") /\ local[p].name \in NameSet(Pre(p).projects)
        => IF EntriesOf(Pre(p), local[p].name) = {}
           THEN /\ Res(p).kind = "Ok"
                /\ projects = {r \in Pre(p).projects : r.name # local[p].name}
                /\ time_entries = Pre(p).time_entries
           ELSE /\ Res(p).kind = "ProjectHasTimeEntries"
                /\ Res(p).val = Some(local[p].name)
                /\ projects = Pre(p).projects
                /\ time_entries = Pre(p).time_entries

\* A project with a time entry was refused.
C13_Witness ==
    \E p \in Procs :
        /\ Solo(p, "delete_project") /\ local[p].name \in NameSet(Pre(p).projects)
        /\ EntriesOf(Pre(p), local[p].name) # {}
        /\ Res(p).kind = "ProjectHasTimeEntries"
        /\ projects # {}

\* C20: getCurrentStatus never changes persisted state: whether a timer is
\* running or not, the projects, the time entries and the active-timer slot
\* are after the call what they were before it; and it reports "No active
\* timer" exactly when the slot is empty.
C20_StatusReadOnly ==
    \A p \in Procs :
        Solo(p, "get_current_status")
        => /\ Res(p).kind = "Ok"
           /\ projects = Pre(p).projects
           /\ time_entries = Pre(p).time_entries
           /\ active_timer = Pre(p).active_timer
           /\ Res(p).val = Some(<<"No active timer">>) <=> Pre(p).active_timer = {}

\* The status of a running timer with a task has been reported.
C20_Witness ==
    \E p \in Procs :
        /\ Solo(p, "get_current_status")
        /\ Running(Pre(p).active_timer)
        /\ Res(p).val = Some(<<"timer", "Acme", " (", "0", "h ", "0", "m)", " - ", "design">>)
        /\ active_timer = Pre(p).active_timer

\* The entry a successful stop_timer call returned.
Stopped(p) == Completed(p) /\ local[p].op = "stop_timer" /\ Res(p).kind = "Ok"

\* An entry is finished: it has an end_time if and only if it has a duration,
\* and the end_time is strictly after the start_time.
Finished(e) ==
    /\ IsSome(e.duration) <=> IsSome(e.end_time)
    /\ IsSome(e.end_time) => Unwrap(e.end_time) > e.start_time

\* A stop at a reading not after the start is rejected with InvalidDuration
\* and persists nothing.
StopRejected ==
    \A p \in Procs :
        Solo(p, "stop_timer") /\ Running(Pre(p).active_timer)
        /\ StopReading <= StartReading(p)
        => /\ Res(p).kind = "InvalidDuration"
           /\ time_entries = Pre(p).time_entries

\* C14 as stated: every TimeEntry that TimeEntry::stop produced or that
\* stopTimer persisted has a duration iff it has an end_time, an end_time
\* strictly after its start_time, and duration = end_time - start_time; a stop
\* with end_time <= start_time is rejected with InvalidDuration.
C14_Original ==
    /\ \A p \in Procs :
         Stopped(p) => LET e == Unwrap(Res(p).val)
                       IN  /\ Finished(e)
                           /\ e.duration = Some(Unwrap(e.end_time) - e.start_time)
    /\ \A row \in time_entries :
         LET e == time_entry_from_row(row)
         IN  /\ Finished(e)
             /\ IsSome(e.end_time) => e.duration = Some(Unwrap(e.end_time) - e.start_time)
    /\ StopRejected

\* C14 (amended): the TimeEntry that TimeEntry::stop produced has duration =
\* end_time - start_time; the entry stopTimer persisted has that duration cut
\* to whole seconds; both have a duration iff they have an end_time, and an
\* end_time strictly after the start_time; a stop with end_time <= start_time
\* is rejected with InvalidDuration.
C14_StopInvariant ==
    /\ \A p \in Procs :
         Stopped(p) => LET e == Unwrap(Res(p).val)
                       IN  /\ Finished(e)
                           /\ e.duration = Some(Unwrap(e.end_time) - e.start_time)
    /\ \A row \in time_entries :
         LET e == time_entry_from_row(row)
             d == Unwrap(e.end_time) - e.start_time
         IN  /\ Finished(e)
             /\ IsSome(e.end_time) => e.duration = Some(d - (d % TicksPerSecond))
    /\ StopRejected

\* A timer was stopped half a second after its start: the entry returned has
\* that duration, the row holds zero seconds.
C14_Witness ==
    \E p \in Procs :
        /\ Stopped(p)
        /\ Unwrap(Res(p).val).duration = Some(1)
        /\ \E row \in time_entries :
             row.id = Unwrap(Res(p).val).id /\ row.duration_seconds = Some(0)

RECURSIVE SumTo(_, _)
\* f(1) + .. + f(n) of a sequence f of numbers.
SumTo(f, n) == IF n = 0 THEN 0 ELSE SumTo(f, n - 1) + f[n]
Sum(f) == SumTo(f, Len(f))

\* What an entry contributes to a total: its duration, zero when it has none.
Contribution(e) == IF IsSome(e.duration) THEN Unwrap(e.duration) ELSE 0

\* A report is the report of the list es of entries.
ReportOf(r, es) ==
    LET sums == r.project_summaries
    IN  /\ r.entries = es
        /\ r.total_duration = Sum([i \in 1..Len(es) |-> Contribution(es[i])])
        /\ Len(sums) = Cardinality(Keys(es))
        /\ {sums[i].project_name : i \in 1..Len(sums)} = Keys(es)
        /\ Sum([i \in 1..Len(sums) |-> sums[i].entry_count]) = Len(es)
        /\ Sum([i \in 1..Len(sums) |-> sums[i].total_duration]) = r.total_duration

\* C15: for every list of time entries, TimeReport::new yields a total_duration
\* that is the sum of the entries' durations (none counts as zero), exactly
\* one summary per distinct project name, entry_counts that sum to the number
\* of entries and summary totals that sum to total_duration.
C15_ReportTotals ==
    \A p \in Procs :
        Completed(p) /\ local[p].op = "time_report_new"
        => ReportOf(Unwrap(Res(p).val), local[p].entries)

\* Three entries of two projects, one of them still running.
C15_Witness ==
    \E p \in Procs :
        /\ Completed(p) /\ local[p].op = "time_report_new"
        /\ Len(local[p].entries) = 3
        /\ \E i \in 1..3 : ~IsSome(local[p].entries[i].duration)
        /\ Len(Unwrap(Res(p).val).project_summaries) = 2
        /\ Unwrap(Res(p).val).total_duration = 3

\* The persisted entries that start within [lo, hi].
StartingIn(lo, hi) ==
    {e \in {time_entry_from_row(r) : r \in time_entries} :
        lo <= e.start_time /\ e.start_time <= hi}

Ascending(es) == \A i, j \in 1..Len(es) : i < j => es[i].start_time <= es[j].start_time

\* The report r lists exactly the entries of the set S, each once.
Lists(r, S) ==
    /\ {r.entries[i] : i \in 1..Len(r.entries)} = S
    /\ Len(r.entries) = Cardinality(S)

\* C16: generateDailyReport(date) includes exactly the persisted entries whose
\* start_time lies in the inclusive window from 00:00:00 to 23:59:59 of the
\* UTC day of `date`, in ascending order of start time; the entries of any
\* other day are in neither the list, the total nor the summaries.
C16_DailyReport ==
    \A p \in Procs :
        Solo(p, "daily_report")
        => LET r   == Unwrap(Res(p).val)
               day == Unwrap(local[p].date) \div TicksPerDay
               lo  == day * TicksPerDay
               hi  == lo + (SecondsPerDay - 1) * TicksPerSecond
           IN  /\ Lists(r, StartingIn(lo, hi))
               /\ Ascending(r.entries)
               /\ ReportOf(r, r.entries)
               /\ \A e \in {time_entry_from_row(row) : row \in time_entries} :
                    e.start_time \div TicksPerDay # day
                    => /\ \A i \in 1..Len(r.entries) : r.entries[i] # e
                       /\ e.project_name \notin Keys(r.entries)
                          => \A i \in 1..Len(r.project_summaries) :
                               r.project_summaries[i].project_name # e.project_name

\* The report of the first day lists an entry that starts at 00:00:00 and one
\* that starts at 23:59:59, and leaves out the other project's entry of the
\* next day.
C16_Witness ==
    \E p \in Procs :
        /\ Solo(p, "daily_report")
        /\ Unwrap(local[p].date) = 1
        /\ Cardinality(time_entries) = 3
        /\ LET r == Unwrap(Res(p).val)
           IN  /\ Len(r.entries) = 2
               /\ r.entries[1].start_time = 0
               /\ r.entries[2].start_time = (SecondsPerDay - 1) * TicksPerSecond
               /\ r.total_duration = 2 * TicksPerSecond
               /\ Len(r.project_summaries) = 1
               /\ r.project_summaries[1].project_name = "Acme"
               /\ r.project_summaries[1].entry_count = 2

\* C17: two startTimer calls that run concurrently on an Idle store can both
\* read an empty slot and both return Ok; the save that runs last leaves the
\* slot holding its own timer only, the timer of the caller that returned Ok
\* before it being overwritten while that caller's result stays Ok.
C17_LastSaveWins ==
    [][\A p \in Procs :
         pc[p] = "st_save" /\ pc'[p] = "idle" /\ Unwrap(local'[p].result).kind = "Ok"
         => /\ active_timer' = {timer_to_row(Unwrap(local[p].timer))}
            /\ \A q \in Procs \ {p} :
                 Completed(q) /\ local[q].op = "start_timer" /\ Res(q).kind = "Ok"
                 => /\ timer_to_row(Unwrap(Res(q).val)) \in active_timer
                    /\ timer_to_row(Unwrap(Res(q).val)) \notin active_timer'
                    /\ local'[q].result = local[q].result]_vars

\* Both overlapping calls returned Ok without a TimerAlreadyRunning; the slot
\* holds the timer of the second caller and not that of the first.
C17_Witness ==
    /\ \A p \in Procs : /\ Completed(p) /\ local[p].op = "start_timer"
                        /\ ~local[p].solo /\ Res(p).kind = "Ok"
    /\ active_timer = {timer_to_row(Unwrap(Res("p2").val))}
    /\ timer_to_row(Unwrap(Res("p1").val)) \notin active_timer
    /\ Unwrap(Res("p1").val).task_description # Unwrap(Res("p2").val).task_description

\* C18: saveActiveTimer is an atomic replace: the call that reached it either
\* succeeds and the slot holds exactly the new timer, or fails and the slot
\* holds what it held before the call.
C18_AtomicReplace ==
    \A p \in Procs :
        (Solo(p, "start_timer") \/ Solo(p, "add_tag")) /\ IsSome(local[p].timer)
        => IF Res(p).kind = "Ok"
           THEN active_timer = {timer_to_row(Unwrap(local[p].timer))}
           ELSE active_timer = Pre(p).active_timer

\* The fixed messages that stand for a storage and for a filesystem error.
Generic(kind) ==
    IF kind = "Database" THEN <<"Database operation failed">>
    ELSE <<"File system operation failed">>

\* C19: every line a command writes to stderr for a storage or filesystem
\* error is the fixed generic message, with no part of the cause; for a domain
\* error it is the error's own message.  For every command, not only start-up.
C19_ErrorsSanitized ==
    \A p \in Procs :
        Completed(p) /\ local[p].op \in Commands /\ IsErr(Res(p))
        => LET out == stderr(local[p].op, Res(p))
           IN  \A i \in 1..Len(out) :
                 IF Res(p).kind \in {"Database", "Io"}
                 THEN /\ out[i] = <<"Error: ">> \o Generic(Res(p).kind)
                      /\ ~Contains(out[i], Unwrap(Res(p).val))
                 ELSE out[i] = <<"Error: ">> \o Display(Res(p))

\* C21: for every commit, of any message, any number of changed files of any
\* type and any insertion and deletion counts, analyzeCommit computes an
\* estimated duration that is greater than zero and at most 4 hours.
C21_EstimateBounded ==
    \A p \in Procs :
        Completed(p) /\ local[p].op = "analyze_commit"
        => /\ Res(p).kind = "Ok"
           /\ Unwrap(Res(p).val).estimated_duration > 0
           /\ Unwrap(Res(p).val).estimated_duration <= 4 * 60

\* C22: in every state reachable by createProject, deleteProject, startTimer
\* and stopTimer calls, the project_id of each persisted time entry is the id
\* of a project in the store.
C22_NoOrphanedEntry ==
    \A e \in time_entries : \E r \in projects : r.id = e.project_id

\* C23: in every state reachable by project and timer operations, a persisted
\* ActiveTimer has the project_id and project_name of a project in the store.
C23_ActiveTimerProjectExists ==
    \A t \in active_timer :
        \E r \in projects : r.id = t.project_id /\ r.name = t.project_name

\* C24: under any interleaving of start_timer, stop_timer and
\* add_tag_to_active_timer calls, the timer slot goes from empty to occupied
\* only in the step in which a start_timer call saves its timer and returns Ok.
C24_OnlyStartOccupies ==
    [][(active_timer = {} /\ active_timer' # {})
       => \E p \in Procs :
              /\ local[p].op = "start_timer"
              /\ pc[p] = "st_save"
              /\ pc'[p] = "idle"
              /\ Unwrap(local'[p].result).kind = "Ok"]_vars

\* C25: startTimer called while a timer is Running, with no concurrent call
\* and with any project name, one that is not in the store included, fails
\* with TimerAlreadyRunning carrying the project name of the running timer.
C25_RunningBeforeLookup ==
    \A p \in Procs :
        Solo(p, "start_timer") /\ Running(Pre(p).active_timer)
        => Res(p) = Err("TimerAlreadyRunning",
                        Unwrap(get_active_timer(Pre(p).active_timer)).project_name)

\* The name asked for is not in the store; the error names the running project.
C25_Witness ==
    \E p \in Procs :
        /\ Solo(p, "start_timer") /\ Running(Pre(p).active_timer)
        /\ local[p].name \notin NameSet(Pre(p).projects)
        /\ Res(p) = Err("TimerAlreadyRunning", "Acme")

\* Two create_project calls with the same name that overlapped and returned,
\* each having found the name free and built its project.
BothCreated(p, q) ==
    /\ p # q
    /\ Completed(p) /\ local[p].op = "create_project" /\ ~local[p].solo
    /\ Completed(q) /\ local[q].op = "create_project" /\ ~local[q].solo
    /\ local[p].name = local[q].name
    /\ IsSome(local[p].project) /\ IsSome(local[q].project)

\* C26: under any interleaving of createProject calls no two stored projects
\* share a name, and of two overlapping calls with the same new name exactly
\* one returns Ok while the other fails with ProjectAlreadyExists.
C26_ConcurrentCreate ==
    /\ \A r1, r2 \in projects : r1.name = r2.name => r1 = r2
    /\ \A p, q \in Procs :
           BothCreated(p, q)
           => /\ {Res(p).kind, Res(q).kind} = {"Ok", "ProjectAlreadyExists"}
              /\ IsErr(Res(q)) => Res(q).val = Some(local[q].name)

\* Both calls found the name free; one insert was refused.
C26_Witness ==
    \E p, q \in Procs :
        /\ BothCreated(p, q)
        /\ Res(p).kind = "Ok" /\ Res(q).kind = "ProjectAlreadyExists"
        /\ NameSet(projects) = {local[p].name}
        /\ Cardinality(projects) = 1

\* C27: generateWeeklyReport(date) reports on the window that starts on the
\* Monday 00:00:00 on or before the day of `date` and ends on the following
\* Sunday 23:59:59, and includes exactly the persisted entries whose start_time
\* lies in that inclusive window.
C27_WeeklyReport ==
    \A p \in Procs :
        Solo(p, "weekly_report")
        => LET r   == Unwrap(Res(p).val)
               day == Unwrap(local[p].date) \div TicksPerDay
               lo  == r.date_range.start
               hi  == r.date_range.end
           IN  /\ \E m \in Mondays :
                     /\ m <= day /\ day <= m + 6
                     /\ lo = m * TicksPerDay
                     /\ hi = (m + 6) * TicksPerDay + (SecondsPerDay - 1) * TicksPerSecond
               /\ Lists(r, StartingIn(lo, hi))
               /\ ReportOf(r, r.entries)

\* The report asked for on the Sunday lists the entries that start on Monday
\* 00:00:00 and on Sunday 23:59:59 and leaves out the one of the next Monday.
C27_Witness ==
    \E p \in Procs :
        /\ Solo(p, "weekly_report")
        /\ Unwrap(local[p].date) \div TicksPerDay = 10
        /\ Cardinality(time_entries) = 3
        /\ LET r == Unwrap(Res(p).val)
           IN  /\ Len(r.entries) = 2
               /\ r.entries[1].start_time = 4 * TicksPerDay
               /\ r.entries[2].start_time = and_hms(10, SecondsPerDay - 1)
               /\ \E e \in time_entries :
                     parse_from_rfc3339(e.start_time) = 11 * TicksPerDay

\* A discovery in dry-run mode, begun while no other call was in flight.
DryRun(p) ==
    /\ local[p].op = "discover_clients" /\ local[p].solo
    /\ Unwrap(local[p].options).dry_run

\* C28: a discovery with dry_run = true leaves the store as it was, at every
\* step and when it has returned, and its result lists no created and no
\* updated project, for every set of directories found and every prior store.
C28_DryRunChangesNothing ==
    \A p \in Procs :
        DryRun(p)
        => /\ Snapshot = Pre(p)
           /\ IsSome(local[p].discovery)
              => /\ Unwrap(local[p].discovery).created_projects = <<>>
                 /\ Unwrap(local[p].discovery).updated_projects = <<>>
           /\ Completed(p) /\ Res(p).kind = "Ok"
              => /\ Unwrap(Res(p).val).created_projects = <<>>
                 /\ Unwrap(Res(p).val).updated_projects = <<>>

\* A dry run has gone through two directories, one of a stored project and one
\* of a project that is not stored.
C28_Witness ==
    \E p \in Procs :
        /\ DryRun(p) /\ Completed(p) /\ Res(p).kind = "Ok"
        /\ Len(Unwrap(Res(p).val).discovered_directories) = 2
        /\ NameSet(projects) = {"[CLIENT] Acme"}
        /\ IsSome(Unwrap(local[p].options).project_prefix)

\* C29: each started timer yields at most one time entry: no two stopTimer
\* calls persist an entry each for the same ActiveTimer, so the entries never
\* outnumber the successful startTimer calls.
C29_OneEntryPerTimer ==
    \A p, q \in Procs :
        p # q /\ Stopped(p) /\ Stopped(q)
        => Unwrap(local[p].timer).id # Unwrap(local[q].timer).id

\* C30: a caller comes to self.connection.lock() only while it does not hold
\* the lock, at most one caller holds it, and every gateway operation that was
\* invoked returns, with the lock free once all have returned; delete_project
\* comes to its own lock after its inner get_project_by_id has let go.
C30_LockReleased ==
    /\ [](\A p \in Procs :
             /\ pc[p] \in {"gw_lock", "dp_inner_lock", "dp_lock"} => connection # Some(p)
             /\ pc[p] \in {"gw_held", "dp_inner_held", "dp_held"} <=> connection = Some(p))
    /\ \A p \in Procs : InFlight(p) ~> (Completed(p) /\ connection # Some(p))

\* delete_project has let go of the lock after its inner read and waits for
\* it again while the other caller holds it.
C30_Witness ==
    \E p, q \in Procs :
        /\ local[p].op = "delete_project" /\ pc[p] = "dp_lock"
        /\ connection = Some(q)
        /\ local[q].op = "delete_project" /\ pc[q] = "dp_held"

====
